---------------------------- MODULE Spec2Model ----------------------------
(***************************************************************************)
(* State-machine model of module-lindroid.c: the bounded audio ring buffer *)
(* shared by the socket receive thread and the capture callback, the       *)
(* playback callback that frames rendered audio onto the socket, and the   *)
(* fallback-sink reconciliation driven by registry and core events.        *)
(***************************************************************************)
EXTENDS Integers, Sequences, FiniteSets, TLC

(***************************************************************************)
(* Sizes.  The ring capacity and the receive scratch buffer are scaled     *)
(* down from 102400 and 10241 bytes so that wrap-around and overflow       *)
(* happen within a few frames; the scratch buffer stays smaller than the   *)
(* ring, as in the source.                                                 *)
(***************************************************************************)
BUFFER_SIZE == 4

TEMP_BUFFER_SIZE == 3

\* Total number of payload bytes the peer puts on the wire in one run.
MaxSent == 6

\* The same budget in the specification with fairness.
MaxSentFair == 4

AUDIO_OUTPUT_PREFIX == 1

AUDIO_INPUT_PREFIX == 2

\* First bytes a received buffer may start with: the two tags and a stray byte.
FirstBytes == {AUDIO_OUTPUT_PREFIX, AUDIO_INPUT_PREFIX, 0}

\* The k-th payload byte the peer sends carries the value k, so that every
\* byte of the stream can be told from every other (k < 256).
PeerByte(k) == k

\* What one recv() delivers when n payload bytes were sent before it: a first
\* byte followed by the next len payload bytes, 1 .. sizeof(temp_buffer) in all.
Frame(first, n, len) == <<first>> \o [k \in 1..len |-> PeerByte(n + k)]

\* recv() results that deliver nothing: end of stream and error.
RecvFaults == {0, -1}

\* b->requested (sample frames) and datas[0].maxsize (bytes) of a capture buffer.
RequestedSet == {0, 1}

MaxsizeSet == {1, 2, 8}

Min(a, b) == IF a < b THEN a ELSE b

VARIABLES
  audio_buffer,        \* static uint8_t audio_buffer[BUFFER_SIZE], index 0..BUFFER_SIZE-1
  audio_buffer_start,  \* offset of the oldest unread byte
  audio_buffer_end,    \* offset one past the newest byte
  buffer_mutex,        \* "free", "feed" or "cb": who holds buffer_mutex
  feed_pc,             \* socket_receive_thread: "recv", "lock", "copy", "unlock"
  temp_buffer,         \* the bytes the last successful recv() delivered
  bytesRead,           \* result of the last recv()
  feed_i,              \* loop index i of the copy loop
  peer_sent,           \* number of payload bytes the peer has sent so far
  cb_pc,               \* source_playback_process: "idle", "lock", "check", "wait", "woken", "unlock"
  requested_size,      \* local requested_size of the running callback
  copy_size,           \* local copy_size of the running callback
  source_chunk,        \* chunk header of the last capture buffer queued to the graph
  written,             \* history: every payload byte stored in the ring, in order
  delivered,           \* history: every byte copied out by the capture callback, in order
  lost,                \* history: number of bytes discarded by overwrite
  since_read,          \* history: bytes stored since the last read (or since start)
  ep_wbase,            \* history: Len(written) when the ring was last written while empty
  ep_rbase,            \* history: Len(delivered) at that moment
  frame_base,          \* history: Len(written) when the copy loop last started
  tag_wake,            \* history: woken by a tag-only frame's signal, not yet past the test
  module_state,        \* "unloaded", "loaded" (init went through) or "failed"
  audio_socket_fd,     \* impl->audio_socket_fd
  play_avail,          \* buffers of the playback stream the callback can dequeue
  play_held,           \* buffers dequeued by the callback and not queued back
  play_last,           \* the last playback cycle: the chunk it got and what it did
  init,                \* how pipewire__module_init() went and what it returned
  sink_ids,            \* impl->sink_ids: bitmap [data, size, items]
  fallback_sink_ids,   \* impl->fallback_sink_ids
  check_seq,           \* impl->check_seq
  scheduled,           \* impl->scheduled
  sink,                \* impl->sink: 0 for NULL, else the number of the proxy
  sink_count,          \* proxies created so far
  proxies,             \* proxies created and not destroyed yet
  core_seq,            \* sequence number of the last pw_core_sync()
  requests,            \* methods sent to the server, not yet handled
  events,              \* events sent by the server, not yet dispatched
  graph,               \* server side: id -> what the global with that id is
  ext_left,            \* steps other clients and the server may still take unasked
  pending,             \* events of a created node the server has yet to send
  add_res,             \* result of the last add_id(&impl->sink_ids, ...)
  remove_res,          \* results of the last two bitmap_remove() of a removed event
  appeared,            \* the last global event: what it was and what it met
  faults               \* NULLs returned so far by realloc() and pw_core_create_object()

ringState == <<audio_buffer, audio_buffer_start, audio_buffer_end>>

feedLocals == <<feed_pc, temp_buffer, bytesRead, feed_i, peer_sent>>

cbLocals == <<cb_pc, requested_size, copy_size, source_chunk>>

history == <<written, delivered, lost, since_read, ep_wbase, ep_rbase, frame_base,
            tag_wake>>

ringVars == <<ringState, buffer_mutex, feedLocals, cbLocals, history>>

playVars == <<module_state, audio_socket_fd, play_avail, play_held, play_last,
              init>>

implSink == <<sink_ids, fallback_sink_ids, check_seq, scheduled, sink, sink_count, proxies,
              core_seq, add_res, remove_res, appeared>>

sinkVars == <<implSink, requests, events, graph, ext_left, pending, faults>>

vars == <<ringVars, playVars, sinkVars>>

---------------------------------------------------------------------------
(* Ring buffer helpers *)

\* The copy loop body with end advanced without the modulo.
RingPut_noWrap(buf, s, e, b) ==
  [buf   |-> [buf EXCEPT ![e] = b],
   start |-> IF e + 1 = s THEN (s + 1) % BUFFER_SIZE ELSE s,
   end   |-> e + 1]

\* The copy loop body with the overwrite test dropped.
RingPut_noDiscard(buf, s, e, b) ==
  [buf |-> [buf EXCEPT ![e] = b], start |-> s, end |-> (e + 1) % BUFFER_SIZE]

\* The copy loop body with the overwrite test made before end is advanced.
RingPut_testFirst(buf, s, e, b) ==
  [buf   |-> [buf EXCEPT ![e] = b],
   start |-> IF e = s THEN (s + 1) % BUFFER_SIZE ELSE s,
   end   |-> (e + 1) % BUFFER_SIZE]

\* One iteration of the copy loop: store b at end, advance end, and push
\* start forward by one when end has caught up with it.
RingPut(buf, s, e, b) ==
  LET e2 == (e + 1) % BUFFER_SIZE
  IN  [buf   |-> [buf EXCEPT ![e] = b],
       start |-> IF e2 = s THEN (s + 1) % BUFFER_SIZE ELSE s,
       end   |-> e2]

\* The run computed as if it could cross the wrap boundary.
AvailableSize_wrapping(s, e) == (e - s + BUFFER_SIZE) % BUFFER_SIZE

\* The contiguous run the callback may copy.
AvailableSize(s, e) == IF e > s THEN e - s ELSE BUFFER_SIZE - s

\* The tag test skipped.
TagAccepted_any(buf) == TRUE

\* temp_buffer[0] == 0x02
TagAccepted(buf) == buf[1] = 2

\* The copy loop starting at the tag byte (i = 0).
FirstPayloadIndex_fromTag == 1 - 1

\* "Start copying from the second byte": C index of the first payload byte.
FirstPayloadIndex == 1

\* SPA_MIN(b->requested * 4, buf->datas[0].maxsize)
RequestedSize(requested, maxsize) == Min(requested * 4, maxsize)

\* The whole run copied whatever was requested.
CopySize_all(requested, available) == available

\* SPA_MIN(requested_size, available_size)
CopySize(requested, available) == Min(requested, available)

\* memcpy(dst, audio_buffer + audio_buffer_start, n): n bytes from offset s on.
\* Offsets past the end of the array read as -1 (outside the object).
CopyOut(buf, s, n) ==
  [k \in 1..n |-> IF s + k - 1 < BUFFER_SIZE THEN buf[s + k - 1] ELSE -1]

\* The unread bytes, oldest first: offsets start, start+1, ... up to end.
Content ==
  LET n == (audio_buffer_end - audio_buffer_start + BUFFER_SIZE) % BUFFER_SIZE
  IN  [k \in 1..n |-> audio_buffer[(audio_buffer_start + k - 1) % BUFFER_SIZE]]

\* The last n elements of a sequence.
Last(seq, n) == SubSeq(seq, Len(seq) - n + 1, Len(seq))

---------------------------------------------------------------------------
(* socket_receive_thread *)

\* recv() fails or reports end of stream: log and retry.
FeedRecvFault ==
  /\ feed_pc = "recv"
  /\ \E r \in RecvFaults : bytesRead' = r
  /\ UNCHANGED <<playVars, sinkVars>>
  /\ UNCHANGED <<ringState, buffer_mutex, feed_pc, temp_buffer, feed_i, peer_sent,
                 cbLocals, history>>

\* recv() delivers a buffer; a wrong first byte is logged and dropped, a
\* buffer tagged 0x02 goes on to the locked copy loop.
FeedRecvFrame ==
  /\ feed_pc = "recv"
  /\ \E first \in FirstBytes, len \in 0..(TEMP_BUFFER_SIZE - 1) :
       /\ peer_sent + len <= MaxSent
       /\ temp_buffer' = Frame(first, peer_sent, len)
       /\ bytesRead' = len + 1
       /\ peer_sent' = peer_sent + len
       /\ feed_pc' = IF TagAccepted(temp_buffer') THEN "lock" ELSE "recv"
  /\ UNCHANGED <<playVars, sinkVars>>
  /\ UNCHANGED <<ringState, buffer_mutex, feed_i, cbLocals, history>>

\* pthread_mutex_lock(&buffer_mutex), loop index initialised.
FeedLock ==
  /\ feed_pc = "lock"
  /\ buffer_mutex = "free"
  /\ buffer_mutex' = "feed"
  /\ feed_pc' = "copy"
  /\ feed_i' = FirstPayloadIndex
  /\ frame_base' = Len(written)
  /\ UNCHANGED <<playVars, sinkVars>>
  /\ UNCHANGED <<ringState, temp_buffer, bytesRead, peer_sent, cbLocals,
                 written, delivered, lost, since_read, ep_wbase, ep_rbase,
                 tag_wake>>

\* One iteration of the copy loop (i < bytesRead).
FeedCopy ==
  /\ feed_pc = "copy"
  /\ feed_i < bytesRead
  /\ LET b == temp_buffer[feed_i + 1]
         r == RingPut(audio_buffer, audio_buffer_start, audio_buffer_end, b)
         wasEmpty == audio_buffer_start = audio_buffer_end
     IN  /\ audio_buffer' = r.buf
         /\ audio_buffer_start' = r.start
         /\ audio_buffer_end' = r.end
         /\ written' = Append(written, b)
         /\ lost' = IF r.start # audio_buffer_start THEN lost + 1 ELSE lost
         /\ since_read' = since_read + 1
         /\ ep_wbase' = IF wasEmpty THEN Len(written) ELSE ep_wbase
         /\ ep_rbase' = IF wasEmpty THEN Len(delivered) ELSE ep_rbase
  /\ feed_i' = feed_i + 1
  /\ UNCHANGED <<playVars, sinkVars>>
  /\ UNCHANGED <<buffer_mutex, feed_pc, temp_buffer, bytesRead, peer_sent,
                 cbLocals, delivered, frame_base, tag_wake>>

\* Loop exit with the pthread_cond_signal() call missing.
FeedSignal_noWake ==
  /\ feed_pc = "copy"
  /\ feed_i >= bytesRead
  /\ feed_pc' = "unlock"
  /\ UNCHANGED <<playVars, sinkVars>>
  /\ UNCHANGED <<ringState, buffer_mutex, temp_buffer, bytesRead, feed_i, peer_sent,
                 cbLocals, history>>

\* Loop exit, then pthread_cond_signal(&buffer_cond): a waiting callback is woken.
FeedSignal ==
  /\ feed_pc = "copy"
  /\ feed_i >= bytesRead
  /\ feed_pc' = "unlock"
  /\ cb_pc' = IF cb_pc = "wait" THEN "woken" ELSE cb_pc
  /\ tag_wake' = IF cb_pc = "wait" THEN bytesRead = 1 ELSE tag_wake
  /\ UNCHANGED <<playVars, sinkVars>>
  /\ UNCHANGED <<ringState, buffer_mutex, temp_buffer, bytesRead, feed_i, peer_sent,
                 requested_size, copy_size, source_chunk, written, delivered,
                 lost, since_read, ep_wbase, ep_rbase, frame_base>>

\* pthread_mutex_unlock(&buffer_mutex), back to recv().
FeedUnlock ==
  /\ feed_pc = "unlock"
  /\ buffer_mutex' = "free"
  /\ feed_pc' = "recv"
  /\ UNCHANGED <<playVars, sinkVars>>
  /\ UNCHANGED <<ringState, temp_buffer, bytesRead, feed_i, peer_sent,
                 cbLocals, history>>

---------------------------------------------------------------------------
(* source_playback_process *)

\* No buffer to dequeue, or a buffer without mapped data: return at once.
CbNoBuffer ==
  /\ cb_pc = "idle"
  /\ UNCHANGED <<playVars, sinkVars>>
  /\ UNCHANGED ringVars

\* A buffer is dequeued; the chunk header is reset and requested_size computed.
CbStart ==
  /\ cb_pc = "idle"
  /\ \E req \in RequestedSet, maxsize \in MaxsizeSet :
       requested_size' = RequestedSize(req, maxsize)
  /\ source_chunk' = [offset |-> 0, stride |-> 4, size |-> 0]
  /\ cb_pc' = "lock"
  /\ UNCHANGED <<playVars, sinkVars>>
  /\ UNCHANGED <<ringState, buffer_mutex, feedLocals, copy_size, history>>

\* The callback entering its critical section without waiting for the mutex.
CbLock_noWait ==
  /\ cb_pc = "lock"
  /\ buffer_mutex' = "cb"
  /\ cb_pc' = "check"
  /\ UNCHANGED <<playVars, sinkVars>>
  /\ UNCHANGED <<ringState, feedLocals, requested_size, copy_size, source_chunk,
                 history>>

\* pthread_mutex_lock(&buffer_mutex)
CbLock ==
  /\ cb_pc = "lock"
  /\ buffer_mutex = "free"
  /\ buffer_mutex' = "cb"
  /\ cb_pc' = "check"
  /\ UNCHANGED <<playVars, sinkVars>>
  /\ UNCHANGED <<ringState, feedLocals, requested_size, copy_size, source_chunk,
                 history>>

\* The callback returning with nothing instead of waiting on an empty ring.
CbWait_returnsEmpty ==
  /\ cb_pc = "check"
  /\ audio_buffer_start = audio_buffer_end
  /\ copy_size' = 0
  /\ cb_pc' = "unlock"
  /\ UNCHANGED <<playVars, sinkVars>>
  /\ UNCHANGED <<ringState, buffer_mutex, feedLocals, requested_size, source_chunk,
                 history>>

\* while (start == end) pthread_cond_wait(): the mutex is released while waiting.
CbWait ==
  /\ cb_pc = "check"
  /\ audio_buffer_start = audio_buffer_end
  /\ buffer_mutex' = "free"
  /\ cb_pc' = "wait"
  /\ tag_wake' = FALSE
  /\ UNCHANGED <<playVars, sinkVars>>
  /\ UNCHANGED <<ringState, feedLocals, requested_size, copy_size, source_chunk,
                 written, delivered, lost, since_read, ep_wbase, ep_rbase, frame_base>>

\* pthread_cond_wait() may return without a signal.
CbSpuriousWake ==
  /\ cb_pc = "wait"
  /\ cb_pc' = "woken"
  /\ UNCHANGED <<playVars, sinkVars>>
  /\ UNCHANGED <<ringState, buffer_mutex, feedLocals, requested_size, copy_size,
                 source_chunk, history>>

\* pthread_cond_wait() re-acquires the mutex before it returns to the loop test.
CbRelock ==
  /\ cb_pc = "woken"
  /\ buffer_mutex = "free"
  /\ buffer_mutex' = "cb"
  /\ cb_pc' = "check"
  /\ UNCHANGED <<playVars, sinkVars>>
  /\ UNCHANGED <<ringState, feedLocals, requested_size, copy_size, source_chunk,
                 history>>

\* The ring is not empty: compute the contiguous run, memcpy, advance start.
CbRead ==
  /\ cb_pc = "check"
  /\ audio_buffer_start # audio_buffer_end
  /\ LET available_size == AvailableSize(audio_buffer_start, audio_buffer_end)
         n == CopySize(requested_size, available_size)
     IN  /\ copy_size' = n
         /\ delivered' = delivered \o CopyOut(audio_buffer, audio_buffer_start, n)
         /\ audio_buffer_start' = (audio_buffer_start + n) % BUFFER_SIZE
  /\ since_read' = 0
  /\ tag_wake' = FALSE
  /\ cb_pc' = "unlock"
  /\ UNCHANGED <<playVars, sinkVars>>
  /\ UNCHANGED <<audio_buffer, audio_buffer_end, buffer_mutex, feedLocals,
                 requested_size, source_chunk, written, lost,
                 ep_wbase, ep_rbase, frame_base>>

\* pthread_mutex_unlock(), chunk->size = copy_size, queue the buffer, return.
CbFinish ==
  /\ cb_pc = "unlock"
  /\ buffer_mutex' = "free"
  /\ source_chunk' = [source_chunk EXCEPT !.size = copy_size]
  /\ requested_size' = 0
  /\ copy_size' = 0
  /\ cb_pc' = "idle"
  /\ UNCHANGED <<playVars, sinkVars>>
  /\ UNCHANGED <<ringState, feedLocals, history>>

---------------------------------------------------------------------------
(* Sink reconciliation: bitmaps, check scheduling, registry and core events *)

\* Object ids the server hands out; 130 lies beyond the first 16 bytes.
Ids == {3, 5, 130}

\* Objects of other clients that may exist at the same time: one id is
\* left for the fallback node.
MaxObjects == Cardinality(Ids) - 1

\* Steps in one run that the module does not ask for: objects other clients
\* add or remove, and creations whose two events the server sends in
\* separate steps.
MaxExt == 2

\* Allocations that fail in one run.
MaxFaults == 1

\* ((uint32_t) 0xffffffff), as the same 32 bits read signed
SPA_ID_INVALID == 0 - 1

EINVAL == 22

ENOMEM == 12

\* What realloc() can do: TRUE for a new block, FALSE for NULL.
ReallocOutcomes == {TRUE, FALSE}

\* What pw_core_create_object() can do: TRUE for a proxy, FALSE for NULL.
CreateOutcomes == {TRUE, FALSE}

\* type and props of the globals the registry announces.
SinkGlobals ==
  {[props |-> TRUE, type |-> "Node", media_class |-> "Audio/Sink"],
   [props |-> TRUE, type |-> "Node", media_class |-> "Audio/Sink/Virtual"]}

OtherGlobals ==
  {[props |-> TRUE, type |-> "Node", media_class |-> "Audio/Source"],
   [props |-> TRUE, type |-> "Client", media_class |-> "none"],
   [props |-> FALSE, type |-> "Node", media_class |-> "none"]}

\* impl->properties: what the fallback node is created with.
FallbackGlobal == [props |-> TRUE, type |-> "Node", media_class |-> "Audio/Sink"]

\* A zeroed struct bitmap.
EmptyBitmap == [data |-> <<>>, size |-> 0, items |-> 0]

\* byte & mask, for a mask of one bit
HasBit(byte, mask) == (byte \div mask) % 2 = 1

\* i >> 3
BytePos(i) == i \div 8

\* 1 << (i & 0x7)
BitMask(i) == 2 ^ (i % 8)

\* The ids whose bit is set in the map.
BitmapIds(map) ==
  UNION {{8 * k + b : b \in {c \in 0..7 : HasBit(map.data[k], BitMask(c))}} :
           k \in {j \in 0..(map.size - 1) : map.data[j] # 0}}

\* The block after realloc(new_size) and memset of the new tail.
BitmapGrown(map, new_size) ==
  [map EXCEPT !.data = [k \in 0..(new_size - 1) |->
                          IF k < map.size THEN map.data[k] ELSE 0],
              !.size = new_size]

\* bitmap_add() without the test of the bit: every call sets and counts.
bitmap_add_noTest(map, i, realloc_ok) ==
  LET pos == BytePos(i)
      mask == BitMask(i)
      grow == pos >= map.size
      m == IF grow THEN BitmapGrown(map, map.size + pos + 16) ELSE map
  IN  IF grow /\ ~realloc_ok
      THEN [map |-> map, res |-> 0 - ENOMEM]
      ELSE [map |-> [m EXCEPT !.data[pos] =
                                 IF HasBit(@, mask) THEN @ ELSE @ + mask,
                               !.items = @ + 1],
            res |-> 0]

\* bitmap_add(): the map afterwards and the value returned.
bitmap_add(map, i, realloc_ok) ==
  LET pos == BytePos(i)
      mask == BitMask(i)
      grow == pos >= map.size
      m == IF grow THEN BitmapGrown(map, map.size + pos + 16) ELSE map
  IN  IF grow /\ ~realloc_ok
      THEN [map |-> map, res |-> 0 - ENOMEM]
      ELSE IF HasBit(m.data[pos], mask)
      THEN [map |-> m, res |-> 1]
      ELSE [map |-> [m EXCEPT !.data[pos] = @ + mask, !.items = @ + 1],
            res |-> 0]

\* bitmap_remove(): the map afterwards and the value returned.
bitmap_remove(map, i) ==
  LET pos == BytePos(i)
      mask == BitMask(i)
  IN  IF pos >= map.size
      THEN [map |-> map, res |-> FALSE]
      ELSE IF ~HasBit(map.data[pos], mask)
      THEN [map |-> map, res |-> FALSE]
      ELSE [map |-> [map EXCEPT !.data[pos] = @ - mask, !.items = @ - 1],
            res |-> TRUE]

\* 1 if bitmap_add() calls realloc() and gets NULL, else 0.
ReallocFailed(map, id, realloc_ok) ==
  IF id # SPA_ID_INVALID /\ BytePos(id) >= map.size /\ ~realloc_ok THEN 1 ELSE 0

\* add_id()
add_id(map, id, realloc_ok) ==
  IF id = SPA_ID_INVALID
  THEN [map |-> map, res |-> 0 - EINVAL]
  ELSE bitmap_add(map, id, realloc_ok)

\* The fields schedule_check() and reschedule_check() work on.
Sched == [scheduled |-> scheduled, check_seq |-> check_seq,
          core_seq |-> core_seq, requests |-> requests]

\* impl->check_seq = pw_core_sync(impl->core, 0, impl->check_seq): the
\* method is queued and its sequence number comes back.
pw_core_sync(st) ==
  [st EXCEPT !.core_seq = @ + 1,
             !.check_seq = st.core_seq + 1,
             !.requests = Append(@, [method |-> "sync", seq |-> st.core_seq + 1])]

\* reschedule_check() doing nothing.
reschedule_check_noop(st) == st

\* reschedule_check()
reschedule_check(st) == IF ~st.scheduled THEN st ELSE pw_core_sync(st)

\* schedule_check() marking the check scheduled without requesting a barrier.
schedule_check_noSync(st) == [st EXCEPT !.scheduled = TRUE]

\* schedule_check()
schedule_check(st) ==
  IF st.scheduled THEN st ELSE pw_core_sync([st EXCEPT !.scheduled = TRUE])

\* if (bitmap_remove(&impl->sink_ids, id)) schedule_check(impl);
schedule_check_if(removed, st) == IF removed THEN schedule_check(st) ELSE st

\* The four fields written back.
SetSched(st) ==
  /\ scheduled' = st.scheduled
  /\ check_seq' = st.check_seq
  /\ core_seq' = st.core_seq
  /\ requests' = st.requests

\* The test of registry_event_global(): a Node whose media.class is
\* Audio/Sink or Audio/Sink/Virtual.
IsSinkGlobal(ev) ==
  /\ ev.props
  /\ ev.type = "Node"
  /\ ev.media_class \in {"Audio/Sink", "Audio/Sink/Virtual"}

\* The global event of the registry for an object.
GlobalEvent(id, obj) ==
  [event |-> "global", id |-> id, props |-> obj.props, type |-> obj.type,
   media_class |-> obj.media_class]

\* Server side: the ids in use, and the ids no object has.
UsedIds == {i \in Ids : graph[i].used}

FreeIds == Ids \ UsedIds

\* The id a new object gets: the lowest one not in use, so that a freed id
\* is used again at once.
NewIds == {i \in FreeIds : \A j \in FreeIds : i <= j}

FreeSlot == [used |-> FALSE, proxy |-> 0, sink |-> FALSE]

\* The objects of other clients.
ExtIds == {i \in UsedIds : graph[i].proxy = 0}

\* The sinks in the graph, and those among them this module did not create.
GraphSinks == {i \in UsedIds : graph[i].sink}

ForeignSinks == {i \in ExtIds : graph[i].sink}

\* The nodes in the graph this module created.
FallbackNodes == {i \in UsedIds : graph[i].proxy # 0}

---------------------------------------------------------------------------

(* Module start-up and playback_stream_process *)

\* The playback callback drops a cycle whose payload size is >= this.
MAX_FRAME == 10239

\* Buffers of the playback stream.
PLAY_BUFFERS == 2

\* How pipewire__module_init() can end.
InitOutcomes == {"ok", "no_core", "socket_failed", "connect_failed",
                 "stream_failed", "thread_failed"}

\* chunk->offset, chunk->size and maxsize of the buffers the graph hands over.
ChunkOffsets == {0, 3, 200000}

ChunkSizes == {0, 5, 10238, 10239, 10240, 128000}

PlayMaxsizes == {8, 16384, 131072}

\* The byte at index i of the mapped buffer data.
BufferByte(i) == (7 * i + 3) % 256

\* The offset taken as it comes.
ClampOffs_none(offset, maxsize) == offset

\* offs = SPA_MIN(bd->chunk->offset, bd->maxsize)
ClampOffs(offset, maxsize) == Min(offset, maxsize)

\* size = SPA_MIN(bd->chunk->size, bd->maxsize - offs)
ClampSize(size, maxsize, offs) == Min(size, maxsize - offs)

\* The size test dropped: everything is sent.
TooBig_never(size) == FALSE

\* The size test with > for >=: a payload of exactly 10239 bytes passes.
TooBig_above(size) == size > MAX_FRAME

\* if (size >= 10239): "buffer too big"
TooBig(size) == size >= MAX_FRAME

\* The payload copied from the start of the buffer instead of data + offs.
PrefixedData_noOffset(offs, size) ==
  [k \in 1..(size + 1) |-> IF k = 1 THEN AUDIO_OUTPUT_PREFIX ELSE BufferByte(k - 2)]

\* prefixed_data: the tag byte followed by size bytes from data + offs.
PrefixedData(offs, size) ==
  [k \in 1..(size + 1) |-> IF k = 1 THEN AUDIO_OUTPUT_PREFIX
                                    ELSE BufferByte(offs + k - 2)]

\* What a cycle leaves behind when it could not dequeue a buffer.
NoCycle == [dequeued |-> FALSE, offset |-> 0, size |-> 0, maxsize |-> 0,
            sends |-> <<>>, sent |-> 0, queued |-> FALSE, log |-> "out of buffers"]

\* Before pipewire__module_init() has run.
NotInitialised == [outcome |-> "none", res |-> 0, ret |-> 0,
                   streams |-> FALSE, thread |-> FALSE]

\* The local res of pipewire__module_init() when it leaves: 0, or -errno
\* or the negative result of the step that failed.
InitRes(outcome) == IF outcome = "ok" THEN 0 ELSE 0 - 1

\* What pipewire__module_init() returns: "return 0;" ends both the normal
\* path and the error label.
InitReturn(res) == 0

\* create_stream() is called only once the socket is connected.
StreamsCreated(outcome) == outcome \in {"ok", "stream_failed", "thread_failed"}

\* pthread_create() is the last step and starts the receive thread.
ThreadStarted(outcome) == outcome = "ok"

\* pipewire__module_init(): schedule_check() is called once the registry
\* listener is set up, then the socket is opened and connected, the streams
\* are created and the receive thread is started; every failure destroys
\* impl, and nothing of it remains.
ModuleInit ==
  /\ module_state = "unloaded"
  /\ \E outcome \in InitOutcomes :
       /\ module_state' = IF outcome = "ok" THEN "loaded" ELSE "failed"
       /\ audio_socket_fd' = CASE outcome = "no_core" -> 0
                               [] outcome = "socket_failed" -> -1
                               [] OTHER -> 3
       /\ init' = [outcome |-> outcome, res |-> InitRes(outcome),
                    ret |-> InitReturn(InitRes(outcome)),
                    streams |-> StreamsCreated(outcome),
                    thread |-> ThreadStarted(outcome)]
       /\ IF outcome = "ok"
          THEN SetSched(schedule_check(Sched))
          ELSE UNCHANGED <<scheduled, check_seq, core_seq, requests>>
  /\ UNCHANGED <<play_avail, play_held, play_last>>
  /\ UNCHANGED <<sink_ids, fallback_sink_ids, sink, sink_count, proxies, add_res,
                 remove_res, appeared, events, graph, ext_left, pending, faults>>
  /\ UNCHANGED ringVars

\* One call of playback_stream_process().
PlaybackProcess ==
  /\ module_state = "loaded"
  /\ \E offset \in ChunkOffsets, csize \in ChunkSizes, maxsize \in PlayMaxsizes,
        send_ok \in BOOLEAN :
       LET offs == ClampOffs(offset, maxsize)
           size == ClampSize(csize, maxsize, offs)
           cycle == [dequeued |-> TRUE, offset |-> offset, size |-> csize,
                     maxsize |-> maxsize, sends |-> <<>>, sent |-> 0,
                     queued |-> FALSE, log |-> "none"]
       IN  IF play_avail = 0
           THEN \* pw_stream_dequeue_buffer() == NULL
                /\ play_last' = NoCycle
                /\ UNCHANGED <<play_avail, play_held>>
           ELSE IF audio_socket_fd # -1
           THEN IF TooBig(size)
                THEN \* return without pw_stream_queue_buffer()
                     /\ play_last' = [cycle EXCEPT !.log = "buffer too big"]
                     /\ play_avail' = play_avail - 1
                     /\ play_held' = play_held + 1
                ELSE \* one send() of size + 1 bytes, then queue the buffer
                     /\ play_last' =
                          [cycle EXCEPT
                             !.sends = <<PrefixedData(offs, size)>>,
                             !.sent = IF send_ok THEN size + 1 ELSE -1,
                             !.queued = TRUE,
                             !.log = IF send_ok THEN "sent" ELSE "send failed"]
                     /\ UNCHANGED <<play_avail, play_held>>
           ELSE /\ play_last' = [cycle EXCEPT !.queued = TRUE,
                                              !.log = "not connected"]
                /\ UNCHANGED <<play_avail, play_held>>
  /\ UNCHANGED <<module_state, audio_socket_fd, init>>
  /\ UNCHANGED <<ringVars, sinkVars>>

PlayInit ==
  /\ module_state = "unloaded"
  /\ audio_socket_fd = 0
  /\ play_avail = PLAY_BUFFERS
  /\ play_held = 0
  /\ play_last = NoCycle
  /\ init = NotInitialised

PlayNext ==
  \/ ModuleInit
  \/ PlaybackProcess

---------------------------------------------------------------------------

(* Handlers of the registry, proxy and core events, and the server *)

\* registry_event_global()
registry_event_global ==
  /\ module_state = "loaded"
  /\ events # <<>>
  /\ Head(events).event = "global"
  /\ events' = Tail(events)
  /\ LET ev == Head(events)
         st1 == reschedule_check(Sched)
     IN  IF ~IsSinkGlobal(ev)
         THEN /\ SetSched(st1)
              /\ UNCHANGED <<sink_ids, add_res, faults>>
         ELSE \E realloc_ok \in ReallocOutcomes :
                LET r == add_id(sink_ids, ev.id, realloc_ok)
                IN  /\ faults' = faults + ReallocFailed(sink_ids, ev.id, realloc_ok)
                    /\ faults' <= MaxFaults
                    /\ sink_ids' = r.map
                    /\ add_res' = r.res
                    /\ SetSched(schedule_check(st1))
  /\ appeared' = [seen |-> TRUE, sink |-> IsSinkGlobal(Head(events)),
                  idle |-> ~scheduled,
                  held |-> Head(events).id \in BitmapIds(sink_ids)]
  /\ UNCHANGED <<fallback_sink_ids, sink, sink_count, proxies, remove_res>>
  /\ UNCHANGED <<graph, ext_left, pending>>
  /\ UNCHANGED <<ringVars, playVars>>

\* registry_event_global_remove()
registry_event_global_remove ==
  /\ module_state = "loaded"
  /\ events # <<>>
  /\ Head(events).event = "global_remove"
  /\ events' = Tail(events)
  /\ LET ev == Head(events)
         st1 == reschedule_check(Sched)
         rf == bitmap_remove(fallback_sink_ids, ev.id)
         rs == bitmap_remove(sink_ids, ev.id)
     IN  /\ fallback_sink_ids' = rf.map
         /\ sink_ids' = rs.map
         /\ remove_res' = [called |-> TRUE, fallback |-> rf.res, sinks |-> rs.res]
         /\ SetSched(schedule_check_if(rs.res, st1))
  /\ UNCHANGED <<sink, sink_count, proxies, add_res, appeared, faults>>
  /\ UNCHANGED <<graph, ext_left, pending>>
  /\ UNCHANGED <<ringVars, playVars>>

\* sink_proxy_bound_props().  The listener is removed in
\* sink_proxy_destroy(), so nothing runs for a proxy already destroyed.
sink_proxy_bound_props ==
  /\ module_state = "loaded"
  /\ events # <<>>
  /\ Head(events).event = "bound"
  /\ events' = Tail(events)
  /\ IF Head(events).proxy # sink
     THEN UNCHANGED <<sink_ids, fallback_sink_ids, add_res, scheduled,
                      check_seq, core_seq, requests, faults>>
     ELSE \E ok1 \in ReallocOutcomes, ok2 \in ReallocOutcomes :
            LET ev == Head(events)
                r1 == add_id(sink_ids, ev.id, ok1)
                r2 == add_id(fallback_sink_ids, ev.id, ok2)
            IN  /\ faults' = faults + ReallocFailed(sink_ids, ev.id, ok1)
                                   + ReallocFailed(fallback_sink_ids, ev.id, ok2)
                /\ faults' <= MaxFaults
                /\ sink_ids' = r1.map
                /\ add_res' = r1.res
                /\ fallback_sink_ids' = r2.map
                /\ SetSched(schedule_check(reschedule_check(Sched)))
  /\ UNCHANGED <<sink, sink_count, proxies, remove_res, appeared>>
  /\ UNCHANGED <<graph, ext_left, pending>>
  /\ UNCHANGED <<ringVars, playVars>>

\* sink_proxy_removed(): pw_proxy_destroy() of a proxy the server removed
\* runs sink_proxy_destroy() and sends nothing.  No listener is left on a
\* proxy already destroyed.
sink_proxy_removed ==
  /\ module_state = "loaded"
  /\ events # <<>>
  /\ Head(events).event = "removed"
  /\ events' = Tail(events)
  /\ sink' = IF Head(events).proxy = sink THEN 0 ELSE sink
  /\ proxies' = IF Head(events).proxy = sink THEN proxies \ {sink} ELSE proxies
  /\ UNCHANGED <<sink_ids, fallback_sink_ids, check_seq, scheduled, sink_count,
                 core_seq, add_res, remove_res, appeared>>
  /\ UNCHANGED <<requests, graph, ext_left, pending, faults>>
  /\ UNCHANGED <<ringVars, playVars>>

\* check_sinks() comparing the counts with >= instead of >.
check_sinks_destroyOnEqual(nsinks, nfallbacks, held) ==
  IF nsinks >= nfallbacks
  THEN IF held THEN "destroy" ELSE "nothing"
  ELSE IF held THEN "nothing" ELSE "create"

\* check_sinks() with no test of impl->sink in sink_create().
check_sinks_noHeldTest(nsinks, nfallbacks, held) ==
  IF nsinks > nfallbacks
  THEN IF held THEN "destroy" ELSE "nothing"
  ELSE "create"

\* check_sinks(): what it does for the two item counts and impl->sink:
\* sink_destroy() destroys a proxy that is held, sink_create() creates one
\* if none is held.
check_sinks(nsinks, nfallbacks, held) ==
  IF nsinks > nfallbacks
  THEN IF held THEN "destroy" ELSE "nothing"
  ELSE IF held THEN "nothing" ELSE "create"

\* core_done(): check_sinks() when seq is the last one asked for, nothing
\* otherwise.  pw_proxy_destroy() runs sink_proxy_destroy(), which clears
\* impl->sink; pw_core_create_object() may return NULL.
core_done ==
  /\ module_state = "loaded"
  /\ events # <<>>
  /\ Head(events).event = "done"
  /\ events' = Tail(events)
  /\ IF Head(events).seq = check_seq
     THEN /\ scheduled' = FALSE
          /\ LET todo == check_sinks(sink_ids.items, fallback_sink_ids.items,
                                     sink # 0)
             IN  CASE todo = "destroy" ->
                        /\ requests' = Append(requests,
                                              [method |-> "destroy", proxy |-> sink])
                        /\ sink' = 0
                        /\ proxies' = proxies \ {sink}
                        /\ UNCHANGED <<sink_count, faults>>
                   [] todo = "create" ->
                        \E created \in CreateOutcomes :
                          IF created
                          THEN /\ UNCHANGED faults
                               /\ sink_count' = sink_count + 1
                               /\ sink' = sink_count + 1
                               /\ proxies' = proxies \cup {sink_count + 1}
                               /\ requests' = Append(requests,
                                                [method |-> "create",
                                                 proxy |-> sink_count + 1])
                          ELSE /\ faults < MaxFaults
                               /\ faults' = faults + 1
                               /\ UNCHANGED <<requests, sink, sink_count, proxies>>
                   [] OTHER ->
                        UNCHANGED <<requests, sink, sink_count, proxies, faults>>
     ELSE UNCHANGED <<scheduled, requests, sink, sink_count, proxies, faults>>
  /\ UNCHANGED <<sink_ids, fallback_sink_ids, check_seq, core_seq, add_res,
                 remove_res, appeared>>
  /\ UNCHANGED <<graph, ext_left, pending>>
  /\ UNCHANGED <<ringVars, playVars>>

\* The server answers a sync method with a done event of the same seq.
ServerSync ==
  /\ requests # <<>>
  /\ Head(requests).method = "sync"
  /\ requests' = Tail(requests)
  /\ events' = Append(events, [event |-> "done", seq |-> Head(requests).seq])
  /\ UNCHANGED <<implSink, graph, ext_left, pending, faults>>
  /\ UNCHANGED <<ringVars, playVars>>

\* The server creates the node asked for with pw_core_create_object(): it
\* gets a free id, the registry announces it (global) and the proxy is told
\* its id (bound).  The module's source fixes neither the order of the two
\* events nor how far apart they are sent: the server sends both here, in
\* either order, or sends one here and the other in a later step.
ServerCreate ==
  /\ requests # <<>>
  /\ Head(requests).method = "create"
  /\ requests' = Tail(requests)
  /\ \E id \in NewIds, bound_first \in BOOLEAN, late \in BOOLEAN :
       LET g == GlobalEvent(id, FallbackGlobal)
           b == [event |-> "bound", proxy |-> Head(requests).proxy, id |-> id]
           both == IF bound_first THEN <<b, g>> ELSE <<g, b>>
       IN  /\ graph' = [graph EXCEPT ![id] =
                          [used |-> TRUE, proxy |-> Head(requests).proxy,
                           sink |-> IsSinkGlobal(FallbackGlobal)]]
           /\ IF late
              THEN /\ ext_left > 0
                   /\ events' = Append(events, both[1])
                   /\ pending' = Append(pending, both[2])
                   /\ ext_left' = ext_left - 1
              ELSE /\ events' = events \o both
                   /\ UNCHANGED <<pending, ext_left>>
  /\ UNCHANGED <<implSink, faults>>
  /\ UNCHANGED <<ringVars, playVars>>

\* The server sends the event of a created node it still owed.
ServerEmit ==
  /\ pending # <<>>
  /\ events' = Append(events, Head(pending))
  /\ pending' = Tail(pending)
  /\ UNCHANGED <<implSink, requests, graph, ext_left, faults>>
  /\ UNCHANGED <<ringVars, playVars>>

\* The server destroys the node of a proxy destroyed with pw_proxy_destroy().
ServerDestroy ==
  /\ requests # <<>>
  /\ Head(requests).method = "destroy"
  /\ pending = <<>>
  /\ requests' = Tail(requests)
  /\ IF \E id \in FallbackNodes : graph[id].proxy = Head(requests).proxy
     THEN \E id \in FallbackNodes :
            /\ graph[id].proxy = Head(requests).proxy
            /\ graph' = [graph EXCEPT ![id] = FreeSlot]
            /\ events' = Append(events, [event |-> "global_remove", id |-> id])
     ELSE \* the node is gone already
          UNCHANGED <<graph, events>>
  /\ UNCHANGED <<implSink, ext_left, pending, faults>>
  /\ UNCHANGED <<ringVars, playVars>>

\* Another client adds an object to the graph; the registry announces it.
ExtGlobal ==
  /\ module_state = "loaded"
  /\ ext_left > 0
  /\ Cardinality(ExtIds) < MaxObjects
  /\ \E id \in NewIds, obj \in SinkGlobals \cup OtherGlobals :
       /\ graph' = [graph EXCEPT ![id] = [used |-> TRUE, proxy |-> 0,
                                           sink |-> IsSinkGlobal(obj)]]
       /\ events' = Append(events, GlobalEvent(id, obj))
  /\ ext_left' = ext_left - 1
  /\ UNCHANGED <<implSink, requests, pending, faults>>
  /\ UNCHANGED <<ringVars, playVars>>

\* An object of another client goes away.
ExtGlobalRemove ==
  /\ module_state = "loaded"
  /\ ext_left > 0
  /\ \E id \in ExtIds :
       /\ graph' = [graph EXCEPT ![id] = FreeSlot]
       /\ events' = Append(events, [event |-> "global_remove", id |-> id])
  /\ ext_left' = ext_left - 1
  /\ UNCHANGED <<implSink, requests, pending, faults>>
  /\ UNCHANGED <<ringVars, playVars>>

\* Another client destroys the node this module created: the registry
\* announces the removal and the proxy is told it was removed.
ExtFallbackRemove ==
  /\ module_state = "loaded"
  /\ ext_left > 0
  /\ pending = <<>>
  /\ \E id \in FallbackNodes, removed_first \in BOOLEAN :
       LET g == [event |-> "global_remove", id |-> id]
           r == [event |-> "removed", proxy |-> graph[id].proxy]
       IN  /\ graph' = [graph EXCEPT ![id] = FreeSlot]
           /\ events' = IF removed_first THEN events \o <<r, g>>
                                         ELSE events \o <<g, r>>
  /\ ext_left' = ext_left - 1
  /\ UNCHANGED <<implSink, requests, pending, faults>>
  /\ UNCHANGED <<ringVars, playVars>>

\* impl as calloc() leaves it, and a graph no client has touched.
SinkInit ==
  /\ sink_ids = EmptyBitmap
  /\ fallback_sink_ids = EmptyBitmap
  /\ check_seq = 0
  /\ scheduled = FALSE
  /\ sink = 0
  /\ sink_count = 0
  /\ proxies = {}
  /\ core_seq = 0
  /\ requests = <<>>
  /\ events = <<>>
  /\ graph = [i \in Ids |-> FreeSlot]
  /\ ext_left = MaxExt
  /\ pending = <<>>
  /\ faults = 0
  /\ add_res = 0
  /\ remove_res = [called |-> FALSE, fallback |-> FALSE, sinks |-> FALSE]
  /\ appeared = [seen |-> FALSE, sink |-> FALSE, idle |-> FALSE, held |-> FALSE]

SinkNext ==
  \/ ModuleInit
  \/ registry_event_global
  \/ registry_event_global_remove
  \/ sink_proxy_bound_props
  \/ sink_proxy_removed
  \/ core_done
  \/ ServerSync
  \/ ServerCreate
  \/ ServerEmit
  \/ ServerDestroy
  \/ ExtGlobal
  \/ ExtGlobalRemove
  \/ ExtFallbackRemove

---------------------------------------------------------------------------

RingInit ==
  /\ audio_buffer = [k \in 0..(BUFFER_SIZE - 1) |-> 0]
  /\ audio_buffer_start = 0
  /\ audio_buffer_end = 0
  /\ buffer_mutex = "free"
  /\ feed_pc = "recv"
  /\ temp_buffer = <<>>
  /\ bytesRead = 0
  /\ feed_i = 0
  /\ peer_sent = 0
  /\ cb_pc = "idle"
  /\ requested_size = 0
  /\ copy_size = 0
  /\ source_chunk = [offset |-> 0, stride |-> 0, size |-> 0]
  /\ written = <<>>
  /\ delivered = <<>>
  /\ lost = 0
  /\ since_read = 0
  /\ ep_wbase = 0
  /\ ep_rbase = 0
  /\ frame_base = 0
  /\ tag_wake = FALSE

RingNext ==
  \/ FeedRecvFault
  \/ FeedRecvFrame
  \/ FeedLock
  \/ FeedCopy
  \/ FeedSignal
  \/ FeedUnlock
  \/ CbNoBuffer
  \/ CbStart
  \/ CbLock
  \/ CbWait
  \/ CbSpuriousWake
  \/ CbRelock
  \/ CbRead
  \/ CbFinish

Init == RingInit /\ PlayInit /\ SinkInit

SpecRing == Init /\ [][RingNext]_vars

\* Fair scheduling of the two threads: a thread that can take a step of its
\* own code eventually takes it, and a thread blocked on the mutex gets it if
\* the mutex keeps becoming free.  Nothing is assumed about the peer (recv)
\* or about the graph starting a callback or waking a waiter spuriously.
RingFairness ==
  /\ SF_vars(FeedLock)
  /\ WF_vars(FeedCopy)
  /\ WF_vars(FeedSignal)
  /\ WF_vars(FeedUnlock)
  /\ SF_vars(CbLock)
  /\ SF_vars(CbRelock)
  /\ WF_vars(CbWait)
  /\ WF_vars(CbRead)
  /\ WF_vars(CbFinish)

\* The same threads with a shorter peer stream, for the liveness check.
FeedRecvFrameFair == FeedRecvFrame /\ peer_sent' <= MaxSentFair

RingNextFair ==
  \/ FeedRecvFault
  \/ FeedRecvFrameFair
  \/ FeedLock
  \/ FeedCopy
  \/ FeedSignal
  \/ FeedUnlock
  \/ CbNoBuffer
  \/ CbStart
  \/ CbLock
  \/ CbWait
  \/ CbSpuriousWake
  \/ CbRelock
  \/ CbRead
  \/ CbFinish

SpecRingFair == Init /\ [][RingNextFair]_vars /\ RingFairness

SpecPlay == Init /\ [][PlayNext]_vars

SpecSink == Init /\ [][SinkNext]_vars

\* Fair delivery: an event at the head of the queue is eventually
\* dispatched and the server eventually handles the method at the head of
\* its queue.  Nothing is assumed about other clients or about the host
\* loading the module.
SinkFairness ==
  /\ WF_vars(registry_event_global)
  /\ WF_vars(registry_event_global_remove)
  /\ WF_vars(sink_proxy_bound_props)
  /\ WF_vars(sink_proxy_removed)
  /\ WF_vars(core_done)
  /\ WF_vars(ServerSync)
  /\ WF_vars(ServerCreate)
  /\ WF_vars(ServerEmit)
  /\ WF_vars(ServerDestroy)

SpecSinkFair == Init /\ [][SinkNext]_vars /\ SinkFairness

---------------------------------------------------------------------------
(* Properties of the ring buffer *)

\* The ring looks empty to the capture callback.
Drained == audio_buffer_start = audio_buffer_end

\* Bytes stored, and bytes copied out, since the ring was last written while empty.
EpochW == SubSeq(written, ep_wbase + 1, Len(written))

EpochR == SubSeq(delivered, ep_rbase + 1, Len(delivered))

\* C1 as stated: whenever at most BUFFER_SIZE bytes were written into an empty
\* ring and the ring has been drained again, the reads returned exactly the
\* written bytes.  Fails for a total of exactly BUFFER_SIZE bytes.
C1_RoundTripUpToCapacity ==
  (Drained /\ Len(EpochW) <= BUFFER_SIZE) => EpochR = EpochW

\* C1 amended: for a total of at most BUFFER_SIZE - 1 bytes written into an
\* empty ring, the bytes read so far followed by the unread content are exactly
\* the written bytes in order, so draining the ring returns all of them.
C1_RoundTripBelowCapacity ==
  Len(EpochW) <= BUFFER_SIZE - 1 =>
    /\ EpochR \o Content = EpochW
    /\ Drained => EpochR = EpochW

\* BUFFER_SIZE - 1 bytes written into a ring that was empty at a non-zero
\* offset have all been read back.
C1_Witness ==
  /\ Drained
  /\ ep_wbase > 0
  /\ Len(EpochW) = BUFFER_SIZE - 1
  /\ EpochR = EpochW

\* C2 as stated: after more than BUFFER_SIZE bytes written with no read in
\* between, the unread content is the last BUFFER_SIZE bytes written.
C2_KeepsLastCapacityBytes ==
  since_read > BUFFER_SIZE => Content = Last(written, BUFFER_SIZE)

\* C2 amended: after more than BUFFER_SIZE bytes written with no read in
\* between, the unread content is exactly the last BUFFER_SIZE - 1 bytes written.
C2_KeepsLastCapacityMinusOne ==
  since_read > BUFFER_SIZE => Content = Last(written, BUFFER_SIZE - 1)

C2_Witness ==
  /\ since_read > BUFFER_SIZE
  /\ Len(delivered) > 0
  /\ Content = Last(written, BUFFER_SIZE - 1)

\* C3: a read on a non-empty ring returns min(maxBytes, contiguous) bytes taken
\* from offset start, advances start by that amount modulo the capacity, never
\* crosses the wrap boundary, and cannot drain a region that wraps.
C3_ReadIsContiguous ==
  [][(cb_pc = "check" /\ cb_pc' = "unlock") =>
       LET contiguous == IF audio_buffer_end > audio_buffer_start
                         THEN audio_buffer_end - audio_buffer_start
                         ELSE BUFFER_SIZE - audio_buffer_start
           n == IF requested_size < contiguous THEN requested_size ELSE contiguous
       IN  /\ audio_buffer_start # audio_buffer_end
           /\ copy_size' = n
           /\ audio_buffer_start + n <= BUFFER_SIZE
           /\ delivered' = delivered \o
                [k \in 1..n |-> audio_buffer[audio_buffer_start + k - 1]]
           /\ audio_buffer_start' = (audio_buffer_start + n) % BUFFER_SIZE
           /\ audio_buffer_end' = audio_buffer_end
           /\ (0 < audio_buffer_end /\ audio_buffer_end < audio_buffer_start)
                => audio_buffer_start' # audio_buffer_end']_vars

\* A read that asked for more stopped at the wrap boundary and left data behind.
C3_Witness ==
  /\ cb_pc = "unlock"
  /\ copy_size > 0
  /\ requested_size > copy_size
  /\ audio_buffer_start = 0
  /\ audio_buffer_end > 0

\* C4: both offsets stay inside the array, and the number of unread bytes
\* (stored, not yet copied out, not overwritten) is zero exactly when
\* start = end.
C4_OffsetsInRange ==
  /\ audio_buffer_start \in 0..(BUFFER_SIZE - 1)
  /\ audio_buffer_end \in 0..(BUFFER_SIZE - 1)
  /\ (Len(written) - Len(delivered) - lost = 0) <=> Drained

\* Empty again after an overflow, with the feed thread about to write.
C4_Witness ==
  /\ lost > 0
  /\ Drained
  /\ Len(delivered) > 0
  /\ feed_pc = "lock"
  /\ cb_pc = "wait"

\* C5: under fair scheduling a callback that is inside its read while the ring
\* is non-empty (it called read on a non-empty ring, or it was waiting and the
\* feed thread stored a byte) returns; and a non-empty ring stays non-empty
\* until the callback reads, so the wake-up is not lost.
C5_ReadReturnsOnceDataExists ==
  /\ (cb_pc # "idle" /\ ~Drained) ~> (cb_pc = "idle")
  /\ [][(~Drained /\ ~(cb_pc = "check" /\ cb_pc' = "unlock")) => ~Drained']_vars

\* The callback was waiting, the feed thread stored data and signalled it.
C5_Witness ==
  /\ cb_pc = "woken"
  /\ ~Drained
  /\ feed_pc = "unlock"
  /\ requested_size > 0

\* C6: a recv() that returns <= 0, or a buffer not starting with 0x02, changes
\* neither the ring nor its offsets, wakes nobody, and leaves the thread at recv().
C6_RejectLeavesRingAlone ==
  [][(/\ feed_pc = "recv"
      /\ <<feed_pc, bytesRead, temp_buffer>>' # <<feed_pc, bytesRead, temp_buffer>>
      /\ IF bytesRead' <= 0 THEN TRUE ELSE temp_buffer'[1] # AUDIO_INPUT_PREFIX)
     => /\ UNCHANGED <<audio_buffer, audio_buffer_start, audio_buffer_end>>
        /\ UNCHANGED <<buffer_mutex, cb_pc, written>>
        /\ feed_pc' = "recv"]_vars

\* A frame tagged 0x01 with payload was dropped after earlier traffic, and
\* the callback waiting on the empty ring is still waiting.
C6_Witness ==
  /\ feed_pc = "recv"
  /\ bytesRead > 1
  /\ temp_buffer[1] = AUDIO_OUTPUT_PREFIX
  /\ Len(delivered) > 0
  /\ Drained
  /\ cb_pc = "wait"

\* C7: when the copy loop of a frame 0x02 + p is done, exactly the bytes of p
\* were appended, in order and without the tag, and they are the newest bytes
\* of the ring.
C7_PayloadStoredWithoutTag ==
  feed_pc = "unlock" =>
    LET p == SubSeq(temp_buffer, 2, bytesRead)
        m == Min(Len(p), BUFFER_SIZE - 1)
    IN  /\ temp_buffer[1] = AUDIO_INPUT_PREFIX
        /\ written = SubSeq(written, 1, frame_base) \o p
        /\ Len(written) = frame_base + Len(p)
        /\ Last(Content, m) = Last(p, m)

\* A frame of maximal size was stored across the wrap boundary.
C7_Witness ==
  /\ feed_pc = "unlock"
  /\ bytesRead = TEMP_BUFFER_SIZE
  /\ audio_buffer_end < audio_buffer_start
  /\ audio_buffer_end > 0

---------------------------------------------------------------------------
(* Properties of the playback path *)

\* C8: a cycle whose framed message (tag + clamped payload) would exceed the
\* limit hands nothing to send(); any other cycle hands over exactly one
\* message, the tag 0x01 followed by the bytes [offs, offs + size) of the
\* buffer, where offs + size stays within maxsize.
C8_OverflowDropsWholeCycle ==
  play_last.dequeued =>
    LET offs == IF play_last.offset < play_last.maxsize
                THEN play_last.offset ELSE play_last.maxsize
        room == play_last.maxsize - offs
        size == IF play_last.size < room THEN play_last.size ELSE room
    IN  /\ offs + size <= play_last.maxsize
        /\ IF size + 1 > MAX_FRAME
           THEN play_last.sends = <<>>
           ELSE /\ Len(play_last.sends) = 1
                /\ Len(play_last.sends[1]) = size + 1
                /\ play_last.sends[1][1] = AUDIO_OUTPUT_PREFIX
                /\ \A k \in 1..size :
                     play_last.sends[1][k + 1] = BufferByte(offs + k - 1)

\* A 128000-byte cycle was dropped.
C8_Witness ==
  /\ play_last.dequeued
  /\ play_last.size = 128000
  /\ play_last.maxsize > 128000
  /\ play_last.sends = <<>>
  /\ play_last.log = "buffer too big"


\* The clamped payload size of the last playback cycle.
LastPayloadSize ==
  ClampSize(play_last.size, play_last.maxsize,
            ClampOffs(play_last.offset, play_last.maxsize))

\* The last playback cycle sent one message: the tag and its payload.
LastCycleSent ==
  /\ Len(play_last.sends) = 1
  /\ Len(play_last.sends[1]) = LastPayloadSize + 1
  /\ play_last.queued

\* The last playback cycle was dropped: nothing sent, the error logged.
LastCycleDropped ==
  /\ play_last.sends = <<>>
  /\ play_last.log = "buffer too big"

\* C18: maximum playback payload, as the claim has it.  With the socket
\* connected, a cycle whose clamped payload size is at most 10239 bytes,
\* exactly 10239 included, is framed and sent, and a cycle is dropped only
\* when its payload size is greater than 10239 bytes.
C18_PayloadOf10239Sent ==
  (play_last.dequeued /\ audio_socket_fd # -1) =>
     /\ LastPayloadSize <= MAX_FRAME => LastCycleSent
     /\ LastCycleDropped => LastPayloadSize > MAX_FRAME

\* C18 as the code has it: 10239 bytes bound the framed message, tag
\* included.  With the socket connected, a cycle whose clamped payload
\* size is at most 10238 bytes is framed and sent, and a cycle whose
\* payload size is 10239 bytes or more, exactly 10239 included, is dropped.
C18_PayloadOf10239Dropped ==
  (play_last.dequeued /\ audio_socket_fd # -1) =>
     /\ LastPayloadSize <= MAX_FRAME - 1 => (LastCycleSent /\ ~LastCycleDropped)
     /\ LastPayloadSize >= MAX_FRAME => (LastCycleDropped /\ ~LastCycleSent)

\* A cycle with a payload of exactly 10239 bytes was dropped.
C18_Witness ==
  /\ play_last.dequeued
  /\ audio_socket_fd # -1
  /\ LastPayloadSize = MAX_FRAME
  /\ LastCycleDropped

\* C9 as stated: after every playback callback the module holds no graph
\* buffer, and a cycle that dequeued a buffer queued it back.
C9_BufferAlwaysReturned ==
  /\ play_held = 0
  /\ play_last.dequeued => play_last.queued

\* An event is being dispatched: the step takes the head of the queue.
Dispatch(kind) ==
  /\ events # <<>>
  /\ Head(events).event = kind
  /\ events' = Tail(events)

\* The item count of a bitmap is the number of ids set in it.
CountsIds(map) == map.items = Cardinality(BitmapIds(map))

\* C10: Reconciliation idempotence.  The item count of each set always
\* equals the number of distinct ids set in it; an appeared (or bound)
\* event for an id adds nothing but that id and leaves sink_ids as it is
\* when the id is already set, so repeated events for one id raise the
\* count by at most 1 in total; a removed event for an id in neither set
\* leaves both sets and both counts unchanged and, when no check is
\* scheduled, schedules none and asks for no barrier.
C10_ReconciliationIdempotent ==
  [][LET before == BitmapIds(sink_ids)
         after == BitmapIds(sink_ids')
         fallback == BitmapIds(fallback_sink_ids)
         id == Head(events).id
     IN  /\ sink_ids.items = Cardinality(before)
         /\ sink_ids'.items = Cardinality(after)
         /\ fallback_sink_ids.items = Cardinality(fallback)
         /\ CountsIds(fallback_sink_ids')
         /\ (Dispatch("global") \/ Dispatch("bound")) =>
              /\ before \subseteq after
              /\ after \subseteq before \cup {id}
              /\ sink_ids'.items <= sink_ids.items + 1
              /\ id \in before => sink_ids' = sink_ids
         /\ (Dispatch("global_remove") /\ id \notin before /\ id \notin fallback) =>
              /\ sink_ids' = sink_ids
              /\ fallback_sink_ids' = fallback_sink_ids
              /\ ~scheduled => /\ ~scheduled'
                               /\ check_seq' = check_seq
                               /\ requests' = requests]_vars

\* A second add of an id already set was signalled with 1, and the last
\* removed event was for an id in neither set and left the machine idle
\* with the sink still counted once.
C10_Witness ==
  /\ add_res = 1
  /\ sink_ids.items = 1
  /\ remove_res.called
  /\ ~remove_res.fallback
  /\ ~remove_res.sinks
  /\ ~scheduled

\* No realloc() and no pw_core_create_object() has returned NULL so far.
NoFault == faults = 0

\* C11: every id in fallback_sink_ids is in sink_ids too, in every state
\* reached by appeared, removed and bound events, so fallback_sink_ids never
\* counts more ids than sink_ids.
C11_FallbackSubsetOfSinks ==
  /\ BitmapIds(fallback_sink_ids) \subseteq BitmapIds(sink_ids)
  /\ fallback_sink_ids.items <= sink_ids.items

\* The same while no allocation has failed: the only way out of the subset
\* is a bound event whose first add_id() fails and whose second succeeds.
FallbackSubsetUnlessFault == NoFault => C11_FallbackSubsetOfSinks

\* The create and destroy methods in a queue of requests.
ObjectRequests(q) == SelectSeq(q, LAMBDA r : r.method # "sync")

\* A done event is being dispatched whose seq is (or is not) impl->check_seq.
DoneMatching == Dispatch("done") /\ Head(events).seq = check_seq

DoneStale == Dispatch("done") /\ Head(events).seq # check_seq

\* C12: the check runs only in the dispatch of a done event that carries
\* check_seq: no other step creates or destroys a fallback sink, and a done
\* event with another seq changes nothing.  When the check runs, scheduled
\* is cleared; with sink_ids.items > fallback_sink_ids.items the proxy held
\* (if any) is destroyed and none is created; otherwise one is created only
\* if none is held (or the creation fails and nothing changes).  The module
\* holds at most one proxy, impl->sink, and the graph holds at most one node
\* created by it.  A sink with id 5 appearing while both sets are {F} makes
\* the counts 2 and 1, so that the check then destroys F.
C12_CheckOnlyOnLastBarrier ==
  [][LET more == sink_ids.items > fallback_sink_ids.items
         create == [method |-> "create", proxy |-> sink']
         destroy == [method |-> "destroy", proxy |-> sink]
     IN  /\ DoneStale =>
               /\ UNCHANGED <<implSink, requests, graph, faults>>
         /\ ~DoneMatching =>
               /\ sink_count' = sink_count
               /\ proxies' \subseteq proxies
               /\ Len(ObjectRequests(requests')) <= Len(ObjectRequests(requests))
         /\ DoneMatching =>
               /\ ~scheduled'
               /\ more =>
                    /\ sink' = 0
                    /\ proxies' = {}
                    /\ sink_count' = sink_count
                    /\ requests' = IF sink # 0 THEN Append(requests, destroy)
                                               ELSE requests
               /\ (~more /\ sink # 0) =>
                    UNCHANGED <<sink, proxies, sink_count, requests>>
               /\ (~more /\ sink = 0) =>
                    \/ /\ sink' = sink_count + 1
                       /\ sink_count' = sink_count + 1
                       /\ proxies' = {sink'}
                       /\ requests' = Append(requests, create)
                    \/ /\ faults' = faults + 1
                       /\ UNCHANGED <<sink, proxies, sink_count, requests>>
         /\ proxies = {sink} \ {0}
         /\ proxies' = {sink'} \ {0}
         /\ Cardinality(FallbackNodes) <= 1
         /\ Cardinality(FallbackNodes') <= 1
         /\ \A F \in Ids \ {5} :
              (/\ Dispatch("global")
               /\ IsSinkGlobal(Head(events))
               /\ Head(events).id = 5
               /\ BitmapIds(sink_ids) = {F}
               /\ BitmapIds(fallback_sink_ids) = {F}) =>
                 /\ BitmapIds(sink_ids') = {F, 5}
                 /\ sink_ids'.items = 2
                 /\ fallback_sink_ids'.items = 1]_vars

\* A check has just destroyed the fallback sink 3 because sink 5 appeared:
\* its destroy method is the last one queued, the sets are still {3, 5} and
\* {3}, and no check is scheduled.
C12_Witness ==
  /\ BitmapIds(sink_ids) = {3, 5}
  /\ BitmapIds(fallback_sink_ids) = {3}
  /\ sink = 0
  /\ proxies = {}
  /\ ~scheduled
  /\ requests # <<>>
  /\ requests[Len(requests)].method = "destroy"

\* Both sets are {F} for the node F of the proxy the module holds, and
\* nothing but done events is waiting to be dispatched.
Settled ==
  /\ sink # 0
  /\ \E F \in FallbackNodes :
       /\ graph[F].proxy = sink
       /\ BitmapIds(sink_ids) = {F}
       /\ BitmapIds(fallback_sink_ids) = {F}
  /\ pending = <<>>
  /\ \A k \in 1..Len(events) : events[k].event = "done"

\* No other client adds or removes an object in this step.
NoExternalStep == ext_left' = ext_left

\* C13: no churn.  A check that finds both sets empty and no proxy held
\* creates the fallback sink (unless pw_core_create_object() returns NULL).
\* Once the node is announced and bound, so that both sets are {F}, every
\* later step that is not an event of another client keeps both sets {F}
\* and the proxy held: no check destroys F or creates another sink.
C13_NoChurnOnceBound ==
  [][/\ (/\ DoneMatching
         /\ BitmapIds(sink_ids) = {}
         /\ BitmapIds(fallback_sink_ids) = {}
         /\ sink = 0) =>
           \/ /\ sink' # 0
              /\ proxies' = {sink'}
              /\ requests' = Append(requests, [method |-> "create", proxy |-> sink'])
           \/ /\ faults' = faults + 1
              /\ UNCHANGED <<sink, proxies, requests>>
     /\ (Settled /\ NoExternalStep) =>
           /\ Settled'
           /\ UNCHANGED <<sink, sink_count, proxies, sink_ids, fallback_sink_ids>>
           /\ ObjectRequests(requests') = <<>>]_vars

\* The first check created sink 1, it was announced and bound, the checks
\* asked for by those two events have run (three barriers in all), nothing
\* is pending, and the sink is still the first one.
C13_Witness ==
  /\ Settled
  /\ sink = 1
  /\ sink_count = 1
  /\ core_seq >= 3
  /\ ~scheduled
  /\ events = <<>>
  /\ requests = <<>>
  /\ ext_left = MaxExt

\* The reconciliation has come to rest: no check is scheduled, nothing is
\* queued in either direction, and the module holds a fallback sink, whose
\* node is in the graph, exactly when no sink of another client is there.
Converged ==
  /\ ~scheduled
  /\ events = <<>>
  /\ requests = <<>>
  /\ ForeignSinks = {} => (sink # 0 /\ Cardinality(FallbackNodes) = 1)
  /\ ForeignSinks # {} => (sink = 0 /\ FallbackNodes = {})

\* C14: under fair delivery, once other clients stop adding and removing
\* objects the loaded module reaches and stays in a state that is idle, with
\* exactly one fallback sink if no other sink is in the graph and none if
\* there is one; the graph is not left without a sink for good.
C14_Converges ==
  /\ <>[](module_state = "loaded" => Converged)
  /\ <>[](module_state = "loaded" => GraphSinks # {})

\* The same for the runs in which no allocation fails: these converge,
\* the server sending the two events of a node in separate steps for a
\* bounded number of creations.
ConvergesUnlessFault ==
  <>[]((module_state = "loaded" /\ NoFault) => Converged)

\* C15: when socket() or connect() fails during start-up, the value
\* returned to the host is a failure (negative), no stream was created and
\* the receive thread was not started.
C15_ConnectFailureReported ==
  init.outcome \in {"socket_failed", "connect_failed"} =>
    /\ init.ret < 0
    /\ ~init.streams
    /\ ~init.thread

\* What does hold of the same start-up: the module is not left loaded, no
\* stream is created and no thread is started; only the value returned is
\* not a failure.
ConnectFailureAborts ==
  init.outcome \in {"socket_failed", "connect_failed"} =>
    /\ init.res < 0
    /\ module_state = "failed"
    /\ ~init.streams
    /\ ~init.thread

\* A registry event, or the bound event of the proxy held, is being
\* dispatched.
DispatchRegistryOrBound ==
  \/ Dispatch("global")
  \/ Dispatch("global_remove")
  \/ Dispatch("bound") /\ Head(events).proxy = sink

\* The barriers on their way: sync methods not yet answered and done events
\* not yet dispatched.
Barriers ==
  SelectSeq(requests, LAMBDA r : r.method = "sync") \o
  SelectSeq(events, LAMBDA e : e.event = "done")

\* The barriers on their way that carry impl->check_seq.
LastBarriers == SelectSeq(Barriers, LAMBDA b : b.seq = check_seq)

\* C16: while a check is scheduled, a further registry or bound event
\* requests no new barrier and leaves check_seq as it is.
C16_NoNewBarrierWhileScheduled ==
  [][(scheduled /\ DispatchRegistryOrBound) =>
        /\ check_seq' = check_seq
        /\ core_seq' = core_seq
        /\ requests' = requests]_vars

\* C16 as the code has it: while a check is scheduled, every further
\* registry or bound event requests exactly one new barrier and makes its
\* seq the new check_seq; the check stays scheduled.  Earlier barriers stay
\* on their way, but exactly one barrier carries check_seq, and only its
\* completion runs the check; once the check has run no barrier is left.
C16_BarrierRenewedWhileScheduled ==
  [][/\ (scheduled /\ DispatchRegistryOrBound) =>
          /\ scheduled'
          /\ core_seq' = core_seq + 1
          /\ check_seq' = core_seq'
          /\ requests' = Append(requests, [method |-> "sync", seq |-> check_seq'])
     /\ scheduled => (check_seq = core_seq /\ Len(LastBarriers) = 1)
     /\ scheduled' => (check_seq' = core_seq' /\ Len(LastBarriers') = 1)
     /\ (scheduled /\ ~scheduled') => DoneMatching
     /\ (module_state = "loaded" /\ ~scheduled) => Barriers = <<>>]_vars

\* A check is scheduled and two barriers are on their way, the older one
\* stale.
C16_Witness ==
  /\ scheduled
  /\ Len(Barriers) >= 2
  /\ Len(LastBarriers) = 1
  /\ Barriers[1].seq < check_seq


\* C17: appeared transition, as the claim has it.  An appeared event for a
\* sink adds the id to sink_ids; dispatched while no check is scheduled it
\* schedules one, and requests a barrier, only if the id was newly added,
\* and leaves the state idle with no barrier requested if the id was in
\* sink_ids already.  An appeared event for any other object leaves
\* sink_ids as it is.
C17_AppearedSchedulesOnlyIfNew ==
  [][Dispatch("global") =>
       LET ev == Head(events)
           before == BitmapIds(sink_ids)
           after == BitmapIds(sink_ids')
       IN  IF IsSinkGlobal(ev)
           THEN /\ ev.id \in after
                /\ (~scheduled /\ scheduled') =>
                      (ev.id \notin before /\ ev.id \in after)
                /\ (~scheduled /\ ev.id \in before) =>
                      (~scheduled' /\ requests' = requests)
           ELSE sink_ids' = sink_ids]_vars

\* C17 as the code has it: an appeared event for a sink adds the id to
\* sink_ids, unless realloc() fails, and then sink_ids is unchanged; in
\* every case, the id new or not, added or not, the event ends with a
\* check scheduled and exactly one new barrier requested, whose seq is the
\* new check_seq.  An appeared event for any other object changes neither
\* sink_ids nor scheduled, and requests a barrier only to renew the one of
\* a check already scheduled.
C17_AppearedAlwaysSchedules ==
  [][Dispatch("global") =>
       LET ev == Head(events)
           before == BitmapIds(sink_ids)
           after == BitmapIds(sink_ids')
       IN  IF IsSinkGlobal(ev)
           THEN /\ \/ /\ after = before \cup {ev.id}
                      /\ add_res' \in {0, 1}
                      /\ add_res' = 1 <=> ev.id \in before
                   \/ /\ faults' = faults + 1
                      /\ add_res' = 0 - ENOMEM
                      /\ sink_ids' = sink_ids
                /\ scheduled'
                /\ core_seq' = core_seq + 1
                /\ check_seq' = core_seq'
                /\ requests' =
                     Append(requests, [method |-> "sync", seq |-> check_seq'])
           ELSE /\ sink_ids' = sink_ids
                /\ scheduled' = scheduled
                /\ ~scheduled => UNCHANGED <<check_seq, core_seq, requests>>]_vars

\* The last appeared event was for a sink whose id was in sink_ids already
\* and came while no check was scheduled; no allocation has failed, and the
\* check it scheduled is waiting for its barrier.
C17_Witness ==
  /\ appeared.seen
  /\ appeared.sink
  /\ appeared.idle
  /\ appeared.held
  /\ faults = 0
  /\ add_res = 1
  /\ scheduled
  /\ Len(Barriers) = 1


\* The capture callback is inside its wait loop: testing, waiting or woken.
InWaitLoop == cb_pc \in {"check", "wait", "woken"}

\* C20: blocking on empty.  The capture callback passes its wait loop only
\* when audio_buffer_start # audio_buffer_end, and returns the bytes it
\* copied then.  While it is in the loop with the ring empty, every step that
\* stores no payload byte leaves it in the loop with the ring empty, and
\* leaves the offsets, the ring and what it has returned as they are: it
\* stays blocked for as long as no INPUT frame with a payload arrives.
\* The signal of a tag-only INPUT frame wakes a waiting callback; the ring
\* is still empty, and the only step the woken callback takes after its
\* test is back to waiting, with the mutex released.
C20_BlockedWhileEmpty ==
  [][LET empty == audio_buffer_start = audio_buffer_end
     IN  /\ (cb_pc # "unlock" /\ cb_pc' = "unlock") =>
              /\ cb_pc = "check"
              /\ ~empty
              /\ Len(delivered') = Len(delivered) + copy_size'
         /\ (InWaitLoop /\ empty /\ written' = written) =>
              /\ InWaitLoop'
              /\ audio_buffer_start' = audio_buffer_end'
              /\ UNCHANGED <<ringState, delivered, copy_size, source_chunk>>
         /\ (cb_pc = "check" /\ empty /\ cb_pc' # cb_pc) =>
              /\ cb_pc' = "wait"
              /\ buffer_mutex' = "free"
         /\ (feed_pc = "copy" /\ feed_pc' = "unlock" /\ bytesRead = 1
               /\ cb_pc = "wait") =>
              /\ cb_pc' = "woken"
              /\ tag_wake'
              /\ empty
              /\ UNCHANGED <<ringState, delivered, copy_size, source_chunk>>
         /\ (tag_wake /\ InWaitLoop /\ empty /\ written' = written
               /\ cb_pc' # cb_pc) =>
              \/ cb_pc = "woken" /\ cb_pc' = "check" /\ tag_wake'
              \/ cb_pc = "check" /\ cb_pc' = "wait" /\ ~tag_wake']_vars

\* The signal of a tag-only frame woke the waiting callback and it holds the
\* mutex again, at the test of its loop; the ring is empty, no byte has been
\* stored or returned and the offsets are where they started.
C20_Witness ==
  /\ tag_wake
  /\ cb_pc = "check"
  /\ buffer_mutex = "cb"
  /\ bytesRead = 1
  /\ written = <<>>
  /\ delivered = <<>>
  /\ audio_buffer_start = 0
  /\ audio_buffer_end = 0


\* The check run by this step destroys the fallback sink the module holds.
CheckDestroys == DoneMatching /\ sink # 0 /\ sink' = 0

\* The ids in sink_ids that are not the id of a node this module created.
KnownForeignSinks == BitmapIds(sink_ids) \ FallbackNodes

\* The server still owes the bound event of the proxy held, or has queued
\* it behind the done event being dispatched.
BoundOutstanding ==
  \/ \E k \in 1..Len(pending) :
       pending[k].event = "bound" /\ pending[k].proxy = sink
  \/ \E k \in 1..Len(events) :
       events[k].event = "bound" /\ events[k].proxy = sink

\* C19: a check that destroys the fallback sink does so only while a sink
\* this module did not create is in the graph, or at least is known to the
\* module through sink_ids; the fallback sink is never destroyed while it
\* is the only sink, whatever the order in which its global event, its
\* bound event and the done events arrive.
C19_DestroyOnlyWithForeignSink ==
  [][CheckDestroys => (ForeignSinks # {} \/ KnownForeignSinks # {})]_vars

\* What holds instead: without a failed allocation, a check destroys the
\* fallback sink while it is the only sink only if it runs between the
\* global event and the bound event of that sink.
DestroyOnlyWithForeignSinkOnceBound ==
  [][(CheckDestroys /\ NoFault /\ ~BoundOutstanding) =>
        (ForeignSinks # {} \/ KnownForeignSinks # {})]_vars


\* The number of unread bytes: stored, not yet copied out, not overwritten.
Unread == Len(written) - Len(delivered) - lost

\* C21: the ring never holds more than BUFFER_SIZE - 1 unread bytes, and
\* they are the bytes between start and end.  Every iteration of the copy
\* loop leaves start # end, so the ring is not empty after a write of at
\* least one byte, and stays so until the callback reads: after any number
\* of bytes stored since the last read, BUFFER_SIZE and its multiples
\* included, the ring does not look empty.
C21_NeverFullyWrapped ==
  [][/\ Unread <= BUFFER_SIZE - 1
     /\ Unread' <= BUFFER_SIZE - 1
     /\ Len(Content) = Unread
     /\ Len(Content') = Unread'
     /\ Len(written') > Len(written) => audio_buffer_start' # audio_buffer_end'
     /\ since_read > 0 => ~Drained
     /\ since_read' > 0 => ~Drained']_vars

\* Exactly BUFFER_SIZE bytes were stored without a read in between: one was
\* discarded, BUFFER_SIZE - 1 are unread and the ring does not look empty.
C21_Witness ==
  /\ since_read = BUFFER_SIZE
  /\ Len(delivered) = 0
  /\ lost = 1
  /\ Unread = BUFFER_SIZE - 1
  /\ ~Drained
  /\ feed_pc = "unlock"


\* sub is an in-order subsequence of seq: its elements can be matched, left
\* to right, to elements of seq at strictly increasing positions.
RECURSIVE IsSubsequence(_, _)
IsSubsequence(sub, seq) ==
  IF sub = <<>> THEN TRUE
  ELSE IF seq = <<>> THEN FALSE
  ELSE IF Head(sub) = Head(seq) THEN IsSubsequence(Tail(sub), Tail(seq))
  ELSE IsSubsequence(sub, Tail(seq))

\* The thread holding buffer_mutex, as its position in the code has it.
FeedHoldsMutex == feed_pc \in {"copy", "unlock"}

CbHoldsMutex == cb_pc \in {"check", "unlock"}

\* C22: whatever the interleaving, after every step that stores or returns
\* a byte or moves an offset (nothing is returned or unread before the
\* first one), the bytes the callback has returned, followed by the bytes
\* still unread, are an in-order subsequence of the payload bytes stored:
\* every stored byte differs from every other, so no byte is returned
\* twice, out of order or without having been stored.
\* The feed thread is inside its copy loop only with the mutex held, the
\* callback tests and reads the ring only with the mutex held, and never
\* both: the ring and its offsets change only in a step of the thread that
\* holds the mutex, and while the callback holds it no frame is half
\* copied.
C22_InOrderUnderMutex ==
  [][/\ <<ringState, delivered, written>>' # <<ringState, delivered, written>> =>
          IsSubsequence(delivered' \o Content', written')
     /\ FeedHoldsMutex <=> buffer_mutex = "feed"
     /\ CbHoldsMutex <=> buffer_mutex = "cb"
     /\ FeedHoldsMutex' <=> buffer_mutex' = "feed"
     /\ CbHoldsMutex' <=> buffer_mutex' = "cb"
     /\ ringState' # ringState =>
          \/ /\ buffer_mutex = "feed"
             /\ buffer_mutex' = "feed"
             /\ UNCHANGED <<cbLocals, delivered>>
          \/ /\ buffer_mutex = "cb"
             /\ buffer_mutex' = "cb"
             /\ UNCHANGED <<feedLocals, written>>
     /\ CbHoldsMutex => feed_pc \in {"recv", "lock"}]_vars

\* After an overflow the callback has returned bytes in two reads, the
\* second while the feed thread was waiting for the mutex with a frame in
\* hand; bytes were discarded in between, and what was returned is still in
\* order.
C22_Witness ==
  /\ lost > 0
  /\ Len(delivered) >= 2
  /\ Len(delivered) < Len(written) - Len(Content)
  /\ cb_pc = "unlock"
  /\ feed_pc = "lock"
  /\ IsSubsequence(delivered \o Content, written)

====
